---- MODULE Spec2Model ----
(***************************************************************************)
(* Simple Shop ERP API (src/main.py, src/schemas.py).                      *)
(*                                                                         *)
(* The store is a set of collections (product, sale, purchase,             *)
(* stockmovement) shared by all requests.  A request is handled by one     *)
(* client thread; every store operation of a handler (find_one,            *)
(* update_one, delete_one, create_document) is one atomic step, and the    *)
(* steps of different requests interleave freely.                          *)
(*                                                                         *)
(* Optional[...] fields are sequences: <<>> is None and <<v>> is v.        *)
(* Prices, costs, totals and taxes are integer-valued floats, on which     *)
(* float arithmetic is exact.                                              *)
(***************************************************************************)
EXTENDS Integers, Sequences, FiniteSets

VARIABLES
    product,        \* db["product"]: ObjectId number -> [sku, quantity]
    product_seq,    \* number of product ids the store has assigned so far
    sale,           \* db["sale"]: sequence of sale documents, in insertion order
    purchase,       \* db["purchase"]: sequence of purchase documents
    stockmovement,  \* db["stockmovement"]: sequence of StockMovement documents
    pc,             \* per client: position in the handler
    req,            \* per client: the request being handled
    idx,            \* per client: loop index over the request's items
    new_id,         \* per client: sale_id / purchase_id returned by create_document
    resp,           \* per client: the response sent
    pre             \* per client: the store as it was when the request arrived

vars == <<product, product_seq, sale, purchase, stockmovement,
          pc, req, idx, new_id, resp, pre>>

store == [product |-> product, sale |-> sale, purchase |-> purchase,
          stockmovement |-> stockmovement]

(*************************** bounds and domains ****************************)

\* longest item list of a sale or a purchase
MaxItems == 2
\* largest item quantity and largest seeded stock
MaxQty == 2

Clients == {"c1", "c2"}
Skus == {"A", "B"}
Stocks == 0 .. MaxQty
Quantities == 1 .. MaxQty

None == <<>>
Some(v) == <<v>>

(******************************* identifiers *******************************)

\* An id string: hex says whether it is in the store's ObjectId format.
IdStr(coll, n) == [hex |-> TRUE, coll |-> coll, n |-> n]
BadIdStr == [hex |-> FALSE, coll |-> "", n |-> 0]
NullId == [hex |-> FALSE, coll |-> "null", n |-> 0]

\* a mutation of OidOk: every id string is accepted
OidOk_Always(id_str) == TRUE

\* oid(id_str) succeeds (otherwise HTTPException 400 "Invalid id format")
OidOk(id_str) == id_str.hex

\* the product document matching {"_id": oid(id_str)}, if any
Matches(prods, id_str) ==
    /\ id_str.hex
    /\ id_str.coll = "product"
    /\ id_str.n \in DOMAIN prods

(***************************** schemas.py **********************************)

\* Optional[float] = Field(None, ge=0)
ValidOptional(x) == x = None \/ x[1] >= 0

\* class Product: quantity: int = Field(0, ge=0)
ValidProduct(p) == p.quantity >= 0

\* class SaleItem: quantity ge=1, price ge=0, line_total Optional ge=0
ValidSaleItem(item) ==
    /\ item.quantity >= 1
    /\ item.price >= 0
    /\ ValidOptional(item.line_total)

\* class Sale: items: List[SaleItem] = Field(...); subtotal, tax, total ge=0
ValidSale(s) ==
    /\ \A k \in 1 .. Len(s.items) : ValidSaleItem(s.items[k])
    /\ ValidOptional(s.subtotal)
    /\ ValidOptional(s.tax)
    /\ ValidOptional(s.total)

\* class PurchaseItem: quantity ge=1, cost ge=0, line_total Optional ge=0
ValidPurchaseItem(item) ==
    /\ item.quantity >= 1
    /\ item.cost >= 0
    /\ ValidOptional(item.line_total)

\* class Purchase: items: List[PurchaseItem] = Field(...)
ValidPurchase(p) ==
    /\ \A k \in 1 .. Len(p.items) : ValidPurchaseItem(p.items[k])
    /\ ValidOptional(p.subtotal)
    /\ ValidOptional(p.tax)
    /\ ValidOptional(p.total)

\* the request body passes the model's validation (else the framework answers 422)
ValidBody(r) ==
    CASE r.kind = "create_sale" -> ValidSale(r.body)
      [] r.kind = "create_purchase" -> ValidPurchase(r.body)
      [] r.kind = "create_product" -> ValidProduct(r.body)
      [] r.kind = "update_product" -> ValidProduct(r.body)
      [] OTHER -> TRUE

(************************** totals (main.py) *******************************)

\* a mutation of SaleLineTotal: the line total is always recomputed
SaleLineTotal_Recomputed(item) == item.quantity * item.price

\* if item.line_total is None: item.line_total = item.quantity * item.price
SaleLineTotal(item) ==
    IF item.line_total = None THEN item.quantity * item.price
    ELSE item.line_total[1]

\* if item.line_total is None: item.line_total = item.quantity * item.cost
PurchaseLineTotal(item) ==
    IF item.line_total = None THEN item.quantity * item.cost
    ELSE item.line_total[1]

\* the items after the totals loop of create_sale: every line_total is set
SaleItems(items) ==
    [k \in 1 .. Len(items) |->
        [items[k] EXCEPT !.line_total = Some(SaleLineTotal(items[k]))]]

\* the items after the totals loop of create_purchase
PurchaseItems(items) ==
    [k \in 1 .. Len(items) |->
        [items[k] EXCEPT !.line_total = Some(PurchaseLineTotal(items[k]))]]

\* subtotal = 0.0; for item in items: subtotal += item.line_total
RECURSIVE Subtotal(_)
Subtotal(items) ==
    IF items = <<>> THEN 0
    ELSE Subtotal(SubSeq(items, 1, Len(items) - 1)) + items[Len(items)].line_total[1]

\* tax = sale.tax or 0
TaxOrZero(tax) == IF tax = None \/ tax = Some(0) THEN 0 ELSE tax[1]

\* a mutation of Total: the tax is left out
Total_NoTax(subtotal, tax) == subtotal

\* total = subtotal + tax
Total(subtotal, tax) == subtotal + tax

\* the Sale object after lines 135-145
SaleModel(s) ==
    LET items == SaleItems(s.items)
        subtotal == Subtotal(items)
    IN  [s EXCEPT !.items = items,
                  !.subtotal = Some(subtotal),
                  !.total = Some(Total(subtotal, TaxOrZero(s.tax)))]

\* the Purchase object after lines 175-184
PurchaseModel(p) ==
    LET items == PurchaseItems(p.items)
        subtotal == Subtotal(items)
    IN  [p EXCEPT !.items = items,
                  !.subtotal = Some(subtotal),
                  !.total = Some(Total(subtotal, TaxOrZero(p.tax)))]

\* {"id": ..., "subtotal": subtotal, "tax": tax, "total": total}
Result(id, model) ==
    [id |-> id, subtotal |-> model.subtotal[1], tax |-> TaxOrZero(model.tax),
     total |-> model.total[1]]

(************************** store operations *******************************)

\* create_document(collection, data): the document as stored under a new id
InsertDoc(coll, name, doc) == Append(coll, [id |-> IdStr(name, Len(coll) + 1), doc |-> doc])

\* the id create_document returns for the next insert into coll
NextDocId(coll, name) == IdStr(name, Len(coll) + 1)

\* a mutation of SkuExists: the lookup never finds a product
SkuExists_Never(prods, sku) == FALSE

\* db["product"].find_one({"sku": product.sku}) finds a document
SkuExists(prods, sku) == \E n \in DOMAIN prods : prods[n].sku = sku

\* a mutation of InsufficientStock: the boundary quantity = stock is refused
InsufficientStock_Boundary(prod, item) == prod.quantity <= item.quantity

\* a mutation of InsufficientStock: the comparison is dropped
InsufficientStock_Unchecked(prod, item) == FALSE

\* prod.get("quantity", 0) < item.quantity
InsufficientStock(prod, item) == prod.quantity < item.quantity

\* a mutation of PurchaseDelta: the stock moves the wrong way
PurchaseDelta_Negated(item) == 0 - item.quantity

\* {"$inc": {"quantity": item.quantity}} and quantity_change=item.quantity
PurchaseDelta(item) == item.quantity

\* {"$inc": {"quantity": -item.quantity}} and quantity_change=-item.quantity
SaleDelta(item) == 0 - item.quantity

\* a mutation of IncQuantity: the update upserts a document for a missing id
IncQuantity_Upsert(prods, id_str, delta) ==
    IF id_str.n \in DOMAIN prods
    THEN [prods EXCEPT ![id_str.n].quantity = @ + delta]
    ELSE [m \in DOMAIN prods \cup {id_str.n} |->
            IF m = id_str.n THEN [sku |-> "", quantity |-> delta] ELSE prods[m]]

\* a mutation of IncQuantity: the update is lost
IncQuantity_Lost(prods, id_str, delta) == prods

\* db["product"].update_one({"_id": pid}, {"$inc": {"quantity": delta}})
IncQuantity(prods, id_str, delta) ==
    IF Matches(prods, id_str)
    THEN [prods EXCEPT ![id_str.n].quantity = @ + delta]
    ELSE prods

\* StockMovement(product_id, type, quantity_change, reason, ref_id)
StockMovement(product_id, type, quantity_change, reason, ref_id) ==
    [product_id |-> product_id, type |-> type, quantity_change |-> quantity_change,
     reason |-> reason, ref_id |-> ref_id]

\* the function f without the key n
Without(f, n) == [m \in DOMAIN f \ {n} |-> f[m]]

\* the function f with the key n bound to v
With(f, n, v) == [m \in DOMAIN f \cup {n} |-> IF m = n THEN v ELSE f[m]]

(************************** requests drawn *********************************)

P1 == IdStr("product", 1)
P2 == IdStr("product", 2)

\* all sequences over S of length at most n
SeqsUpTo(S, n) == UNION {[1 .. k -> S] : k \in 0 .. n}

\* the totals a request carries: absent, or values the handler must overwrite
CarriedTotals == {[subtotal |-> None, total |-> None],
                  [subtotal |-> Some(9), total |-> Some(8)]}
Taxes == {None, Some(0), Some(1)}
LineTotals == {None, Some(0), Some(3)}

BareOrder(items) == [items |-> items, subtotal |-> None, tax |-> None, total |-> None]
PricedOrder(items, tax, carried) ==
    [items |-> items, subtotal |-> carried.subtotal, tax |-> tax, total |-> carried.total]

\* sale items exercising the stock rules: existing, missing and malformed ids
StockSaleItems ==
    [product_id : {P1, P2, BadIdStr}, quantity : Quantities, price : {1},
     line_total : {None}]
\* sale items exercising the totals: given and absent line totals
PricedSaleItems ==
    [product_id : {P1}, quantity : {2}, price : {2}, line_total : LineTotals]
\* a sale item the schema refuses (quantity < 1)
InvalidSaleItems ==
    [product_id : {P1}, quantity : {0}, price : {1}, line_total : {None}]

StockPurchaseItems ==
    [product_id : {P1, P2, BadIdStr}, quantity : Quantities, cost : {1},
     line_total : {None}]
PricedPurchaseItems ==
    [product_id : {P1}, quantity : {2}, cost : {2}, line_total : LineTotals]
InvalidPurchaseItems ==
    [product_id : {P1}, quantity : {0}, cost : {1}, line_total : {None}]

\* items of the concurrent runs: unit quantities on the two products
RaceSaleItems ==
    [product_id : {P1, P2}, quantity : {1}, price : {1}, line_total : {None}]
RacePurchaseItems ==
    [product_id : {P1, P2}, quantity : {1}, cost : {1}, line_total : {None}]

Orders(StockItems, PricedItems, InvalidItems) ==
    {BareOrder(items) : items \in SeqsUpTo(StockItems, MaxItems)}
    \cup {PricedOrder(items, tax, carried) :
            items \in SeqsUpTo(PricedItems, MaxItems), tax \in Taxes,
            carried \in CarriedTotals}
    \cup {BareOrder(<<item>>) : item \in InvalidItems}

Request(kind, product_id, body) == [kind |-> kind, product_id |-> product_id, body |-> body]
NoRequest == Request("none", NullId, <<>>)

ProductBodies(stocks) == [sku : Skus, quantity : stocks]

CatalogRequests(ids, stocks) ==
    {Request("create_product", NullId, p) : p \in ProductBodies(stocks)}
    \cup {Request("update_product", id, p) : id \in ids, p \in ProductBodies(stocks)}
    \cup {Request("delete_product", id, <<>>) : id \in ids}

\* the requests of the one-at-a-time runs
SeqRequests ==
    {Request("create_sale", NullId, s) :
        s \in Orders(StockSaleItems, PricedSaleItems, InvalidSaleItems)}
    \cup {Request("create_purchase", NullId, p) :
        p \in Orders(StockPurchaseItems, PricedPurchaseItems, InvalidPurchaseItems)}
    \cup CatalogRequests({P1, P2, BadIdStr}, Stocks)

\* the requests of the concurrent runs
RaceRequests ==
    {Request("create_sale", NullId, BareOrder(items)) :
        items \in SeqsUpTo(RaceSaleItems, MaxItems)}
    \cup {Request("create_purchase", NullId, BareOrder(items)) :
        items \in SeqsUpTo(RacePurchaseItems, MaxItems)}
    \cup CatalogRequests({P1, P2}, {1})

\* sale items of the runs with store failures: any quantity of the two products
FailSaleItems ==
    [product_id : {P1, P2}, quantity : Quantities, price : {1}, line_total : {None}]

\* the requests of the runs with store failures
FailRequests ==
    {Request("create_sale", NullId, BareOrder(items)) :
        items \in SeqsUpTo(FailSaleItems, MaxItems)}
    \cup {Request("create_purchase", NullId, BareOrder(items)) :
        items \in SeqsUpTo(RacePurchaseItems, MaxItems)}
    \cup CatalogRequests({P1, P2}, {1})

(******************************* Init **************************************)

\* The product collections create_product builds on an empty store: ids
\* 1..k in order of creation, pairwise distinct skus, quantities >= 0.
SeededProducts(stocks) ==
    {f \in UNION {[1 .. k -> ProductBodies(stocks)] : k \in 0 .. Cardinality(Skus)} :
        \A m, n \in DOMAIN f : m # n => f[m].sku # f[n].sku}

NoResponse == [status |-> 0, detail |-> "", about |-> NullId, body |-> <<>>]

InitWith(prods) ==
    /\ product \in prods
    /\ product_seq = Cardinality(DOMAIN product)
    /\ sale = <<>>
    /\ purchase = <<>>
    /\ stockmovement = <<>>
    /\ pc = [c \in Clients |-> "idle"]
    /\ req = [c \in Clients |-> NoRequest]
    /\ idx = [c \in Clients |-> 1]
    /\ new_id = [c \in Clients |-> NullId]
    /\ resp = [c \in Clients |-> NoResponse]
    /\ pre = [c \in Clients |-> <<>>]

Init == InitWith(SeededProducts({1}))

InitSeq == InitWith(SeededProducts(Stocks))

(****************************** handlers ***********************************)

Item(c) == req[c].body.items[idx[c]]
NumItems(c) == Len(req[c].body.items)

\* the handler of client c ends with this response
Respond(c, status, detail, about, body) ==
    /\ pc' = [pc EXCEPT ![c] = "done"]
    /\ resp' = [resp EXCEPT ![c] =
                  [status |-> status, detail |-> detail, about |-> about, body |-> body]]

\* raise HTTPException(status_code=status, detail=detail)
Raise(c, status, detail, about) == Respond(c, status, detail, about, <<>>)

\* the first store operation of a handler
FirstStep(r) ==
    CASE r.kind = "create_product" -> "product_find"
      [] r.kind = "update_product" -> "product_update"
      [] r.kind = "delete_product" -> "product_delete"
      [] r.kind = "create_sale" ->
            IF r.body.items = <<>> THEN "sale_insert" ELSE "sale_check"
      [] r.kind = "create_purchase" -> "purchase_insert"

\* A request arrives: the body is validated against its schema and the
\* handler is entered (the totals of lines 135-145 and 175-184 are local).
Receive(c, r) ==
    /\ pc[c] = "idle"
    /\ req' = [req EXCEPT ![c] = r]
    /\ pre' = [pre EXCEPT ![c] = store]
    /\ IF ValidBody(r)
       THEN /\ pc' = [pc EXCEPT ![c] = FirstStep(r)]
            /\ resp' = resp
       ELSE Raise(c, 422, "validation error", NullId)
    /\ UNCHANGED <<product, product_seq, sale, purchase, stockmovement, idx, new_id>>

\* create_product, line 53-55: the sku lookup
ProductFind(c) ==
    /\ pc[c] = "product_find"
    /\ IF SkuExists(product, req[c].body.sku)
       THEN Raise(c, 400, "SKU already exists", NullId)
       ELSE /\ pc' = [pc EXCEPT ![c] = "product_insert"]
            /\ resp' = resp
    /\ UNCHANGED <<product, product_seq, sale, purchase, stockmovement,
                   req, idx, new_id, pre>>

\* create_product, line 56-57: the insert
ProductInsert(c) ==
    /\ pc[c] = "product_insert"
    /\ product_seq' = product_seq + 1
    /\ product' = With(product, product_seq + 1, req[c].body)
    /\ Respond(c, 200, "", NullId, [id |-> IdStr("product", product_seq + 1)])
    /\ UNCHANGED <<sale, purchase, stockmovement, req, idx, new_id, pre>>

\* update_product, lines 78-84
ProductUpdate(c) ==
    /\ pc[c] = "product_update"
    /\ IF ~OidOk(req[c].product_id)
       THEN /\ Raise(c, 400, "Invalid id format", NullId)
            /\ product' = product
       ELSE IF ~Matches(product, req[c].product_id)
       THEN /\ Raise(c, 404, "Product not found", NullId)
            /\ product' = product
       ELSE /\ product' = [product EXCEPT ![req[c].product_id.n] = req[c].body]
            /\ Respond(c, 200, "", NullId, [ok |-> TRUE])
    /\ UNCHANGED <<product_seq, sale, purchase, stockmovement, req, idx, new_id, pre>>

\* delete_product, lines 89-93
ProductDelete(c) ==
    /\ pc[c] = "product_delete"
    /\ IF ~OidOk(req[c].product_id)
       THEN /\ Raise(c, 400, "Invalid id format", NullId)
            /\ product' = product
       ELSE IF ~Matches(product, req[c].product_id)
       THEN /\ Raise(c, 404, "Product not found", NullId)
            /\ product' = product
       ELSE /\ product' = Without(product, req[c].product_id.n)
            /\ Respond(c, 200, "", NullId, [ok |-> TRUE])
    /\ UNCHANGED <<product_seq, sale, purchase, stockmovement, req, idx, new_id, pre>>

\* create_sale, lines 148-153: the validation pass, one item per step
SaleCheck(c) ==
    /\ pc[c] = "sale_check"
    /\ IF ~OidOk(Item(c).product_id)
       THEN /\ Raise(c, 400, "Invalid id format", NullId)
            /\ idx' = idx
       ELSE IF ~Matches(product, Item(c).product_id)
       THEN /\ Raise(c, 400, "Product not found", Item(c).product_id)
            /\ idx' = idx
       ELSE IF InsufficientStock(product[Item(c).product_id.n], Item(c))
       THEN /\ Raise(c, 400, "Insufficient stock", Item(c).product_id)
            /\ idx' = idx
       ELSE /\ resp' = resp
            /\ IF idx[c] < NumItems(c)
               THEN /\ idx' = [idx EXCEPT ![c] = @ + 1]
                    /\ pc' = pc
               ELSE /\ idx' = [idx EXCEPT ![c] = 1]
                    /\ pc' = [pc EXCEPT ![c] = "sale_insert"]
    /\ UNCHANGED <<product, product_seq, sale, purchase, stockmovement,
                   req, new_id, pre>>

\* create_sale, line 156: sale_id = create_document("sale", sale)
SaleInsert(c) ==
    /\ pc[c] = "sale_insert"
    /\ sale' = InsertDoc(sale, "sale", SaleModel(req[c].body))
    /\ new_id' = [new_id EXCEPT ![c] = NextDocId(sale, "sale")]
    /\ IF req[c].body.items = <<>>
       THEN Respond(c, 200, "", NullId,
                    Result(NextDocId(sale, "sale"), SaleModel(req[c].body)))
       ELSE /\ pc' = [pc EXCEPT ![c] = "sale_update"]
            /\ resp' = resp
    /\ UNCHANGED <<product, product_seq, purchase, stockmovement, req, idx, pre>>

\* create_sale, lines 159-160: the decrement of one item
SaleUpdate(c) ==
    /\ pc[c] = "sale_update"
    /\ IF ~OidOk(Item(c).product_id)
       THEN /\ Raise(c, 400, "Invalid id format", NullId)
            /\ product' = product
       ELSE /\ product' = IncQuantity(product, Item(c).product_id, SaleDelta(Item(c)))
            /\ pc' = [pc EXCEPT ![c] = "sale_movement"]
            /\ resp' = resp
    /\ UNCHANGED <<product_seq, sale, purchase, stockmovement, req, idx, new_id, pre>>

\* a mutation of SaleMovement: the movement replaces the last one of the log
SaleMovement_Overwrites(c) ==
    /\ pc[c] = "sale_movement"
    /\ stockmovement' =
         (IF stockmovement = <<>> THEN <<>>
          ELSE SubSeq(stockmovement, 1, Len(stockmovement) - 1))
         \o <<StockMovement(Item(c).product_id, "sale", SaleDelta(Item(c)), "Sale", new_id[c])>>
    /\ IF idx[c] < NumItems(c)
       THEN /\ idx' = [idx EXCEPT ![c] = @ + 1]
            /\ pc' = [pc EXCEPT ![c] = "sale_update"]
            /\ resp' = resp
       ELSE /\ idx' = idx
            /\ Respond(c, 200, "", NullId, Result(new_id[c], SaleModel(req[c].body)))
    /\ UNCHANGED <<product, product_seq, sale, purchase, req, new_id, pre>>

\* create_sale, lines 161-169: the movement of one item, then the next item
SaleMovement(c) ==
    /\ pc[c] = "sale_movement"
    /\ stockmovement' = Append(stockmovement,
            StockMovement(Item(c).product_id, "sale", SaleDelta(Item(c)), "Sale", new_id[c]))
    /\ IF idx[c] < NumItems(c)
       THEN /\ idx' = [idx EXCEPT ![c] = @ + 1]
            /\ pc' = [pc EXCEPT ![c] = "sale_update"]
            /\ resp' = resp
       ELSE /\ idx' = idx
            /\ Respond(c, 200, "", NullId, Result(new_id[c], SaleModel(req[c].body)))
    /\ UNCHANGED <<product, product_seq, sale, purchase, req, new_id, pre>>

\* create_purchase, line 186: purchase_id = create_document("purchase", purchase)
PurchaseInsert(c) ==
    /\ pc[c] = "purchase_insert"
    /\ purchase' = InsertDoc(purchase, "purchase", PurchaseModel(req[c].body))
    /\ new_id' = [new_id EXCEPT ![c] = NextDocId(purchase, "purchase")]
    /\ IF req[c].body.items = <<>>
       THEN Respond(c, 200, "", NullId,
                    Result(NextDocId(purchase, "purchase"), PurchaseModel(req[c].body)))
       ELSE /\ pc' = [pc EXCEPT ![c] = "purchase_update"]
            /\ resp' = resp
    /\ UNCHANGED <<product, product_seq, sale, stockmovement, req, idx, pre>>

\* create_purchase, lines 189-190: the increment of one item
PurchaseUpdate(c) ==
    /\ pc[c] = "purchase_update"
    /\ IF ~OidOk(Item(c).product_id)
       THEN /\ Raise(c, 400, "Invalid id format", NullId)
            /\ product' = product
       ELSE /\ product' = IncQuantity(product, Item(c).product_id, PurchaseDelta(Item(c)))
            /\ pc' = [pc EXCEPT ![c] = "purchase_movement"]
            /\ resp' = resp
    /\ UNCHANGED <<product_seq, sale, purchase, stockmovement, req, idx, new_id, pre>>

\* create_purchase, lines 191-199: the movement of one item, then the next item
PurchaseMovement(c) ==
    /\ pc[c] = "purchase_movement"
    /\ stockmovement' = Append(stockmovement,
            StockMovement(Item(c).product_id, "purchase", PurchaseDelta(Item(c)),
                          "Purchase", new_id[c]))
    /\ IF idx[c] < NumItems(c)
       THEN /\ idx' = [idx EXCEPT ![c] = @ + 1]
            /\ pc' = [pc EXCEPT ![c] = "purchase_update"]
            /\ resp' = resp
       ELSE /\ idx' = idx
            /\ Respond(c, 200, "", NullId, Result(new_id[c], PurchaseModel(req[c].body)))
    /\ UNCHANGED <<product, product_seq, sale, purchase, req, new_id, pre>>

\* one step of the handler client c is in
Handle(c) ==
    \/ ProductFind(c)
    \/ ProductInsert(c)
    \/ ProductUpdate(c)
    \/ ProductDelete(c)
    \/ SaleCheck(c)
    \/ SaleInsert(c)
    \/ SaleUpdate(c)
    \/ SaleMovement(c)
    \/ PurchaseInsert(c)
    \/ PurchaseUpdate(c)
    \/ PurchaseMovement(c)

\* no request is being handled
Quiet == \A c \in Clients : pc[c] \in {"idle", "done"}

\* the clients whose request arrives before that of c (clients are
\* interchangeable: the first request to arrive is called c1's)
Earlier(c) == IF c = "c2" THEN {"c1"} ELSE {}

\* concurrent requests: the steps of the handlers interleave
Next ==
    \E c \in Clients :
        \/ /\ \A d \in Earlier(c) : pc[d] # "idle"
           /\ \E r \in RaceRequests : Receive(c, r)
        \/ Handle(c)

Spec == Init /\ [][Next]_vars

\* requests executed one at a time: one arrives only when none is in progress
NextSeq ==
    \/ Quiet /\ \E r \in SeqRequests : Receive("c1", r)
    \/ Handle("c1")

SpecSeq == InitSeq /\ [][NextSeq]_vars

\* a mutation of StoreFailure: the writes of the request are undone
StoreFailure_RollsBack(c) ==
    /\ pc[c] \notin {"idle", "done"}
    /\ Raise(c, 500, "Internal Server Error", NullId)
    /\ product' = pre[c].product
    /\ sale' = pre[c].sale
    /\ purchase' = pre[c].purchase
    /\ stockmovement' = pre[c].stockmovement
    /\ UNCHANGED <<product_seq, req, idx, new_id, pre>>

\* The store operation client c is about to make raises (the store is
\* unreachable, the write is refused): no handler catches the exception, so
\* the request ends with a server error and what it wrote before stays.
StoreFailure(c) ==
    /\ pc[c] \notin {"idle", "done"}
    /\ Raise(c, 500, "Internal Server Error", NullId)
    /\ UNCHANGED <<product, product_seq, sale, purchase, stockmovement,
                   req, idx, new_id, pre>>

\* one request at a time, on a store whose operations may fail
NextFail ==
    \/ Quiet /\ \E r \in FailRequests : Receive("c1", r)
    \/ Handle("c1")
    \/ StoreFailure("c1")

SpecFail == InitSeq /\ [][NextFail]_vars

TypeOK == \A c \in Clients : pc[c] \in {"idle", "done", "product_find", "product_insert",
    "product_update", "product_delete", "sale_check", "sale_insert", "sale_update",
    "sale_movement", "purchase_insert", "purchase_update", "purchase_movement"}

(***************************************************************************)
(* Properties.  In SpecSeq the one request is handled by client c1 and     *)
(* pre["c1"] is the store as the request found it.                         *)
(***************************************************************************)

TheReq == req["c1"]
TheResp == resp["c1"]
Before == pre["c1"]
Returned == pc["c1"] = "done"

\* the sum of the quantities of the items that reference the product id_str
RECURSIVE QuantityFor(_, _)
QuantityFor(items, id_str) ==
    IF items = <<>> THEN 0
    ELSE QuantityFor(Tail(items), id_str)
         + (IF Head(items).product_id = id_str THEN Head(items).quantity ELSE 0)

\* the item names a product of prods and asks for no more than its stock
Coverable(item, prods) ==
    /\ item.product_id.hex
    /\ item.product_id.coll = "product"
    /\ item.product_id.n \in DOMAIN prods
    /\ item.quantity <= prods[item.product_id.n].quantity

\* one movement per item, in item order, as the claims describe them
MovementsOf(items, type, sign, reason, ref_id) ==
    [k \in 1 .. Len(items) |->
        [product_id |-> items[k].product_id, type |-> type,
         quantity_change |-> sign * items[k].quantity, reason |-> reason,
         ref_id |-> ref_id]]

\* C1: a valid sale whose every item asks for at most the current stock of
\* its product (quantity = stock included), run with no other request
\* interleaved, succeeds; every product's stock has gone down by exactly the
\* quantities of the items that reference it, and the movement log has grown
\* by exactly one movement per item: type 'sale', quantity_change =
\* -quantity, reason 'Sale', ref_id = the id of the new sale.
C1_SaleDecrementsStock ==
    (/\ Returned
     /\ TheReq.kind = "create_sale"
     /\ ValidSale(TheReq.body)
     /\ \A k \in 1 .. Len(TheReq.body.items) :
            Coverable(TheReq.body.items[k], Before.product))
    => /\ TheResp.status = 200
       /\ Len(sale) = Len(Before.sale) + 1
       /\ sale[Len(sale)].id = TheResp.body.id
       /\ DOMAIN product = DOMAIN Before.product
       /\ \A n \in DOMAIN product :
            /\ product[n].sku = Before.product[n].sku
            /\ product[n].quantity = Before.product[n].quantity
                    - QuantityFor(TheReq.body.items, IdStr("product", n))
       /\ stockmovement = Before.stockmovement
            \o MovementsOf(TheReq.body.items, "sale", -1, "Sale", TheResp.body.id)
       /\ purchase = Before.purchase

\* C1 witness: a two-item sale has returned, one item taking the whole stock
\* of its product
C1_Witness ==
    /\ Returned
    /\ TheReq.kind = "create_sale"
    /\ Len(TheReq.body.items) = 2
    /\ TheReq.body.items[1].product_id # TheReq.body.items[2].product_id
    /\ \A k \in 1 .. 2 : Coverable(TheReq.body.items[k], Before.product)
    /\ TheReq.body.items[2].quantity
         = Before.product[TheReq.body.items[2].product_id.n].quantity
    /\ TheResp.status = 200

\* the item fails the validation pass of create_sale against prods
Refused(item, prods) == ~Coverable(item, prods)

\* the error the claim expects for a refused item
RefusalOf(item, prods) ==
    IF ~item.product_id.hex THEN "Invalid id format"
    ELSE IF item.product_id.n \notin DOMAIN prods THEN "Product not found"
    ELSE "Insufficient stock"

\* C2: if an item of a sale, at any position, references a product that does
\* not exist or asks for more than that product's stock, create_sale fails
\* with the error of the first such item (ProductNotFound, InsufficientStock)
\* and the product, sale, purchase and stockmovement collections are exactly
\* as before the call.
C2_RefusedSaleWritesNothing ==
    (/\ Returned
     /\ TheReq.kind = "create_sale"
     /\ ValidSale(TheReq.body)
     /\ \E k \in 1 .. Len(TheReq.body.items) :
            Refused(TheReq.body.items[k], Before.product))
    => LET items == TheReq.body.items
           first == CHOOSE k \in 1 .. Len(items) :
                        /\ Refused(items[k], Before.product)
                        /\ \A j \in 1 .. k - 1 : ~Refused(items[j], Before.product)
       IN  /\ TheResp.status = 400
           /\ TheResp.detail = RefusalOf(items[first], Before.product)
           /\ TheResp.detail # "Invalid id format" => TheResp.about = items[first].product_id
           /\ store = Before

\* C2 witness: a sale whose first item is in stock and whose second item asks
\* for more than the stock has been refused
C2_Witness ==
    /\ Returned
    /\ TheReq.kind = "create_sale"
    /\ Len(TheReq.body.items) = 2
    /\ Coverable(TheReq.body.items[1], Before.product)
    /\ TheReq.body.items[2].product_id.hex
    /\ TheReq.body.items[2].product_id.n \in DOMAIN Before.product
    /\ TheReq.body.items[2].quantity
         > Before.product[TheReq.body.items[2].product_id.n].quantity
    /\ TheResp.detail = "Insufficient stock"

\* C5: after create_purchase has returned a result, every product's stock
\* has gone up by exactly the quantities of the items that reference it, and
\* the movement log has grown by exactly one movement per item: type
\* 'purchase', quantity_change = +quantity, reason 'Purchase', ref_id = the
\* id of the new purchase.
C5_PurchaseIncrementsStock ==
    (/\ Returned
     /\ TheReq.kind = "create_purchase"
     /\ TheResp.status = 200)
    => /\ Len(purchase) = Len(Before.purchase) + 1
       /\ purchase[Len(purchase)].id = TheResp.body.id
       /\ DOMAIN product = DOMAIN Before.product
       /\ \A n \in DOMAIN product :
            /\ product[n].sku = Before.product[n].sku
            /\ product[n].quantity = Before.product[n].quantity
                    + QuantityFor(TheReq.body.items, IdStr("product", n))
       /\ stockmovement = Before.stockmovement
            \o MovementsOf(TheReq.body.items, "purchase", 1, "Purchase", TheResp.body.id)
       /\ sale = Before.sale

\* C5 witness: a purchase of two items for two existing products has returned
C5_Witness ==
    /\ Returned
    /\ TheReq.kind = "create_purchase"
    /\ TheResp.status = 200
    /\ Len(TheReq.body.items) = 2
    /\ TheReq.body.items[1].product_id # TheReq.body.items[2].product_id
    /\ \A k \in 1 .. 2 : TheReq.body.items[k].product_id.n \in DOMAIN Before.product
    /\ Len(stockmovement) = 2

\* C7: create_product with the sku of a product already in the store fails
\* with DuplicateSKU and leaves every collection as it was.
C7_DuplicateSkuRefused ==
    (/\ Returned
     /\ TheReq.kind = "create_product"
     /\ \E n \in DOMAIN Before.product : Before.product[n].sku = TheReq.body.sku)
    => /\ TheResp.status = 400
       /\ TheResp.detail = "SKU already exists"
       /\ store = Before

\* C7 witness: a create_product naming the sku of the second of two products
\* has been answered
C7_Witness ==
    /\ Returned
    /\ TheReq.kind = "create_product"
    /\ 2 \in DOMAIN Before.product
    /\ Before.product[2].sku = TheReq.body.sku
    /\ TheResp.status = 400

\* C8: a sale or a purchase with an empty item list is rejected as a
\* validation error before the handler runs, and nothing is written.
C8_EmptyItemsRejected ==
    (/\ Returned
     /\ TheReq.kind \in {"create_sale", "create_purchase"}
     /\ TheReq.body.items = <<>>)
    => /\ TheResp.status = 422
       /\ store = Before

\* the sum of the line totals of persisted items
RECURSIVE SumLineTotals(_)
SumLineTotals(items) ==
    IF items = <<>> THEN 0
    ELSE items[1].line_total[1] + SumLineTotals(Tail(items))

\* the tax of a document, 0 when absent
TaxValue(tax) == IF tax = None THEN 0 ELSE tax[1]

\* the totals law on a persisted sale or purchase
LawfulDocument(m) ==
    /\ \A k \in 1 .. Len(m.items) : m.items[k].line_total # None
    /\ m.subtotal = Some(SumLineTotals(m.items))
    /\ m.total = Some(SumLineTotals(m.items) + TaxValue(m.tax))

\* the document the request persisted, if it persisted one
Persisted ==
    IF TheReq.kind = "create_sale" THEN sale[new_id["c1"].n].doc
    ELSE purchase[new_id["c1"].n].doc

\* C9: every persisted sale and purchase has subtotal = the sum of its items'
\* line totals and total = subtotal + tax (0 when absent), and so has every
\* result returned, whatever subtotal and total the request carried.
C9_TotalsLaw ==
    /\ \A k \in 1 .. Len(sale) : LawfulDocument(sale[k].doc)
    /\ \A k \in 1 .. Len(purchase) : LawfulDocument(purchase[k].doc)
    /\ (/\ Returned
        /\ TheReq.kind \in {"create_sale", "create_purchase"}
        /\ TheResp.status = 200)
       => /\ TheResp.body.subtotal = SumLineTotals(Persisted.items)
          /\ TheResp.body.tax = TaxValue(TheReq.body.tax)
          /\ TheResp.body.total = TheResp.body.subtotal + TheResp.body.tax
          /\ Persisted.tax = TheReq.body.tax

\* C9 witness: a taxed sale of two items has returned whose request carried
\* a subtotal and a total that are not the computed ones
C9_Witness ==
    /\ Returned
    /\ TheReq.kind = "create_sale"
    /\ TheResp.status = 200
    /\ Len(TheReq.body.items) = 2
    /\ TheReq.body.tax = Some(1)
    /\ TheReq.body.subtotal # None
    /\ TheReq.body.subtotal # Some(TheResp.body.subtotal)
    /\ TheReq.body.total # Some(TheResp.body.total)

\* the line total the claim expects for a request item: the one it carries,
\* else quantity * unit price (sale) or quantity * unit cost (purchase)
ExpectedLineTotal(item) ==
    IF item.line_total # None THEN item.line_total[1]
    ELSE item.quantity * (IF TheReq.kind = "create_sale" THEN item.price ELSE item.cost)

\* the sum of the expected line totals of request items
RECURSIVE SumExpected(_)
SumExpected(items) ==
    IF items = <<>> THEN 0
    ELSE ExpectedLineTotal(Head(items)) + SumExpected(Tail(items))

\* C10: a line_total the request carries is used unchanged in the persisted
\* document and in the subtotal, also when it differs from quantity * price
\* (quantity * cost); only an absent line_total is computed, as quantity *
\* price (quantity * cost).
C10_GivenLineTotalKept ==
    (/\ TheReq.kind \in {"create_sale", "create_purchase"}
     /\ new_id["c1"] # NullId)
    => LET given == TheReq.body.items
           kept == Persisted.items
       IN  /\ Len(kept) = Len(given)
           /\ \A k \in 1 .. Len(given) :
                kept[k].line_total = Some(ExpectedLineTotal(given[k]))
           /\ Persisted.subtotal = Some(SumExpected(given))

\* C10 witness: a sale is persisted whose first item carried a line total
\* that is not quantity * price and whose second item carried none
C10_Witness ==
    /\ TheReq.kind = "create_sale"
    /\ new_id["c1"] # NullId
    /\ Len(TheReq.body.items) = 2
    /\ TheReq.body.items[1].line_total # None
    /\ TheReq.body.items[1].line_total
         # Some(TheReq.body.items[1].quantity * TheReq.body.items[1].price)
    /\ TheReq.body.items[2].line_total = None
    /\ Returned

(***************************************************************************)
(* Properties of the concurrent runs (Spec).                               *)
(***************************************************************************)

\* no product is named by two lines of the order
DistinctLines(items) ==
    \A j, k \in 1 .. Len(items) : j # k => items[j].product_id # items[k].product_id

\* every request received so far is a create_sale naming no product twice
OnlyPlainSales ==
    \A c \in Clients :
        req[c].kind = "none"
        \/ (req[c].kind = "create_sale" /\ DistinctLines(req[c].body.items))

\* C3: never oversell: under any interleaving of concurrent create_sale
\* requests against the same product, the product's quantity never drops
\* below zero.  (Stated for sales that name each product once, so that only
\* the interleaving can bring a quantity below zero.)
C3_NeverOversell ==
    OnlyPlainSales => \A n \in DOMAIN product : product[n].quantity >= 0

\* C4: a sale is created atomically with its decrements and movements: no
\* request running concurrently with create_sale is about to read the stock
\* of a product while the sale document is in the store and the decrement of
\* that product for the sale is still missing.
C4_SaleAtomic ==
    \A c, d \in Clients :
        (/\ c # d
         /\ pc[c] = "sale_update"
         /\ new_id[c].n \in 1 .. Len(sale))
        => ~(/\ pc[d] = "sale_check"
             /\ Item(d).product_id = Item(c).product_id)

\* C6: in every reachable state no two product documents share a sku.
C6_SkuUnique ==
    \A m, n \in DOMAIN product : m # n => product[m].sku # product[n].sku

(***************************************************************************)
(* Errors and status classes.                                              *)
(***************************************************************************)

\* the status class of an HTTP status code
StatusClass(status) ==
    IF status = 409 THEN "conflict"
    ELSE IF status = 404 THEN "not-found"
    ELSE IF status \in {400, 422} THEN "bad-request"
    ELSE IF status >= 500 THEN "server-error"
    ELSE "success"

\* C11: every error is reported in its own status class: InsufficientStock
\* and DuplicateSKU in the conflict class, NotFound in the not-found class,
\* ValidationError and InvalidIdentifier in the bad-request class.
C11_ErrorStatusClasses ==
    Returned =>
        /\ TheResp.detail \in {"Insufficient stock", "SKU already exists"}
              => StatusClass(TheResp.status) = "conflict"
        /\ (TheResp.detail = "Product not found"
            /\ TheReq.kind \in {"update_product", "delete_product"})
              => StatusClass(TheResp.status) = "not-found"
        /\ TheResp.detail \in {"validation error", "Invalid id format"}
              => StatusClass(TheResp.status) = "bad-request"

(***************************************************************************)
(* The audit log and the order documents.                                  *)
(***************************************************************************)

\* s is an initial segment of t
IsPrefix(s, t) == Len(s) <= Len(t) /\ SubSeq(t, 1, Len(s)) = s

\* C12: the movement log is append-only and sale and purchase documents are
\* immutable: every step of every interleaving keeps each document of the
\* three collections in place and unchanged, and only adds documents.
C12_AppendOnly ==
    [][/\ IsPrefix(sale, sale')
       /\ IsPrefix(purchase, purchase')
       /\ IsPrefix(stockmovement, stockmovement')]_vars

\* C12 witness: two requests have interleaved their writes: the log holds a
\* movement of each, written after the other's order document
C12_Witness ==
    /\ Len(stockmovement) >= 2
    /\ Len(sale) + Len(purchase) >= 2
    /\ \E j, k \in 1 .. Len(stockmovement) :
            stockmovement[j].ref_id # stockmovement[k].ref_id
    /\ Quiet

(***************************************************************************)
(* Identifiers on the catalog paths.                                       *)
(***************************************************************************)

\* C13: update_product and delete_product with a well-formed id that matches
\* no product fail with NotFound (404); with an id that is not in the
\* store's id format they fail with a bad-request error (400) distinct from
\* NotFound; in both cases the product collection is unchanged.
C13_UnknownAndMalformedIds ==
    (/\ Returned
     /\ TheReq.kind \in {"update_product", "delete_product"}
     /\ ValidBody(TheReq))
    => /\ ~TheReq.product_id.hex
            => /\ TheResp.status = 400
               /\ TheResp.detail = "Invalid id format"
               /\ store = Before
       /\ (TheReq.product_id.hex /\ TheReq.product_id.n \notin DOMAIN Before.product)
            => /\ TheResp.status = 404
               /\ TheResp.detail = "Product not found"
               /\ store = Before

\* C13 witness: an update_product with a malformed id has been answered on a
\* store that holds products
C13_Witness ==
    /\ Returned
    /\ TheReq.kind = "update_product"
    /\ ~TheReq.product_id.hex
    /\ DOMAIN Before.product # {}
    /\ TheResp.status = 400

(***************************************************************************)
(* Purchases for products that are not in the store.                       *)
(***************************************************************************)

\* C14: create_purchase with an item whose product id is well-formed but
\* matches no product completes successfully, and the increment for that
\* item is a no-op: no product document appears and the products in the
\* store change only by the items that reference them.
C14_PurchaseOfMissingProduct ==
    (/\ Returned
     /\ TheReq.kind = "create_purchase"
     /\ ValidPurchase(TheReq.body)
     /\ \A k \in 1 .. Len(TheReq.body.items) : TheReq.body.items[k].product_id.hex
     /\ \E k \in 1 .. Len(TheReq.body.items) :
            TheReq.body.items[k].product_id.n \notin DOMAIN Before.product)
    => /\ TheResp.status = 200
       /\ DOMAIN product = DOMAIN Before.product
       /\ \A n \in DOMAIN product :
            /\ product[n].sku = Before.product[n].sku
            /\ product[n].quantity = Before.product[n].quantity
                    + QuantityFor(TheReq.body.items, IdStr("product", n))
       /\ (\A k \in 1 .. Len(TheReq.body.items) :
                TheReq.body.items[k].product_id.n \notin DOMAIN Before.product)
            => product = Before.product

\* C14 witness: a purchase whose first item names an existing product and
\* whose second item names a missing one has returned its result
C14_Witness ==
    /\ Returned
    /\ TheReq.kind = "create_purchase"
    /\ Len(TheReq.body.items) = 2
    /\ TheReq.body.items[1].product_id.hex
    /\ TheReq.body.items[1].product_id.n \in DOMAIN Before.product
    /\ TheReq.body.items[2].product_id.hex
    /\ TheReq.body.items[2].product_id.n \notin DOMAIN Before.product
    /\ TheResp.status = 200

(***************************************************************************)
(* Movements and the documents they refer to.                              *)
(***************************************************************************)

\* the number of movements of the log with this type and ref_id
RECURSIVE MovementCount(_, _, _)
MovementCount(log, type, ref_id) ==
    IF log = <<>> THEN 0
    ELSE MovementCount(Tail(log), type, ref_id)
         + (IF Head(log).type = type /\ Head(log).ref_id = ref_id THEN 1 ELSE 0)

\* C15: once all requests have completed, every sale and every purchase
\* document has exactly one movement per line item (movements whose ref_id
\* is the document's id), and every movement's ref_id names an existing sale
\* (type 'sale') or purchase (type 'purchase') document.
C15_OneMovementPerItem ==
    Quiet =>
        /\ \A k \in 1 .. Len(sale) :
             MovementCount(stockmovement, "sale", sale[k].id) = Len(sale[k].doc.items)
        /\ \A k \in 1 .. Len(purchase) :
             MovementCount(stockmovement, "purchase", purchase[k].id)
                = Len(purchase[k].doc.items)
        /\ \A j \in 1 .. Len(stockmovement) :
             \/ /\ stockmovement[j].type = "sale"
                /\ \E k \in 1 .. Len(sale) : sale[k].id = stockmovement[j].ref_id
             \/ /\ stockmovement[j].type = "purchase"
                /\ \E k \in 1 .. Len(purchase) : purchase[k].id = stockmovement[j].ref_id

(***************************************************************************)
(* Store failures in the mutation pass of create_sale (SpecFail).          *)
(***************************************************************************)

\* C16: if a store operation fails in the mutation pass of create_sale at
\* the step for item k, the call ends with an error and nothing is rolled
\* back: the sale document and the decrements and movements of items 1..k-1
\* remain (with the decrement of item k when it is its movement that
\* failed), and nothing is written for the items after the failing step.
C16_NoRollback ==
    (/\ Returned
     /\ TheReq.kind = "create_sale"
     /\ TheResp.status = 500
     /\ new_id["c1"] # NullId)
    => LET items == TheReq.body.items
           k == idx["c1"]
       IN  /\ Len(sale) = Len(Before.sale) + 1
           /\ SubSeq(sale, 1, Len(Before.sale)) = Before.sale
           /\ sale[Len(sale)].id = new_id["c1"]
           /\ sale[Len(sale)].doc.items = SaleItems(items)
           /\ stockmovement = Before.stockmovement
                \o MovementsOf(SubSeq(items, 1, k - 1), "sale", -1, "Sale", new_id["c1"])
           /\ DOMAIN product = DOMAIN Before.product
           /\ \E j \in {k - 1, k} :
                \A n \in DOMAIN product :
                    product[n].quantity = Before.product[n].quantity
                        - QuantityFor(SubSeq(items, 1, j), IdStr("product", n))
           /\ purchase = Before.purchase

\* C16 witness: the step for the second item of a two-item sale has failed
\* after the first item was decremented and its movement written
C16_Witness ==
    /\ Returned
    /\ TheReq.kind = "create_sale"
    /\ TheResp.status = 500
    /\ new_id["c1"] # NullId
    /\ Len(TheReq.body.items) = 2
    /\ idx["c1"] = 2
    /\ Len(stockmovement) = 1
    /\ product # Before.product

(***************************************************************************)
(* Stock levels and the ledger.                                            *)
(***************************************************************************)

\* C17: when requests are executed one at a time, every product's quantity
\* is >= 0 after any sequence of create_product, create_sale and
\* create_purchase calls, sales naming one product in several lines included.
C17_StockNeverNegative ==
    TheReq.kind \in {"none", "create_product", "create_sale", "create_purchase"}
    => \A n \in DOMAIN product : product[n].quantity >= 0

\* the sum of quantity_change over the movements of the log for product id_str
RECURSIVE LedgerSum(_, _)
LedgerSum(log, id_str) ==
    IF log = <<>> THEN 0
    ELSE LedgerSum(Tail(log), id_str)
         + (IF Head(log).product_id = id_str THEN Head(log).quantity_change ELSE 0)

\* some request received so far updates or deletes product id_str
Overwritten(id_str) ==
    \E c \in Clients :
        /\ req[c].kind \in {"update_product", "delete_product"}
        /\ req[c].product_id = id_str

\* C18: ledger conservation: once all requests have completed, under any
\* interleaving of create_sale and create_purchase calls, every product that
\* exists throughout and is not overwritten by update_product has quantity =
\* its initial quantity + the sum of quantity_change over the movements with
\* its product_id.
C18_LedgerConservation ==
    (Quiet /\ req["c1"].kind # "none")
    => \A n \in DOMAIN pre["c1"].product :
          ~Overwritten(IdStr("product", n))
          => /\ n \in DOMAIN product
             /\ product[n].quantity = pre["c1"].product[n].quantity
                    + LedgerSum(stockmovement, IdStr("product", n))

\* C18 witness: a sale and a purchase that interleaved on product 1 have
\* both completed
C18_Witness ==
    /\ Quiet
    /\ {req["c1"].kind, req["c2"].kind} = {"create_sale", "create_purchase"}
    /\ resp["c1"].status = 200
    /\ resp["c2"].status = 200
    /\ pre["c2"].sale # sale
    /\ pre["c2"].purchase # purchase
    /\ 1 \in DOMAIN product
    /\ \E j, k \in 1 .. Len(stockmovement) :
            /\ stockmovement[j].product_id = IdStr("product", 1)
            /\ stockmovement[k].product_id = IdStr("product", 1)
            /\ stockmovement[j].type = "sale"
            /\ stockmovement[k].type = "purchase"

\* C19: whenever create_purchase ends with an error, no write has occurred:
\* no purchase document, no stock increment and no movement is persisted.
C19_FailedPurchaseWritesNothing ==
    (/\ Returned
     /\ TheReq.kind = "create_purchase"
     /\ TheResp.status # 200)
    => store = Before

====
